---------------------------- MODULE Spec2Model ----------------------------
(***************************************************************************)
(* Model of the SEI chatbot (yiohans/sei_chatbot):                         *)
(*   - the case-lookup tools of tools.py (search_process,                  *)
(*     get_document_list_from_process, get_document_by_type), with Python  *)
(*     strings modelled as sequences of one-character strings;             *)
(*   - the archive fetcher of utils.py and the status-polling UI loop and  *)
(*     chat turn of Chatbot.py, as a state machine over the process-wide   *)
(*     globals, the per-session st.session_state and the "processos"       *)
(*     directory.                                                          *)
(***************************************************************************)
EXTENDS Integers, Sequences, FiniteSets, TLC

(***************************************************************************)
(* Bounds of the model.                                                    *)
(***************************************************************************)
\* number of browser sessions sharing the process
MaxSessions == 2
\* number of prompts one session submits
MaxTurns == 2
\* number of snapshots one agent stream yields
MaxStream == 2
\* largest limit / offset written in a packed parameter string
MaxArg == 4
\* number of directories (the case folder and its subfolders) os.walk visits
MaxDepth == 2

(***************************************************************************)
(* Python str as a sequence of characters.                                 *)
(***************************************************************************)
Ord ==
    " " :> 32 @@ "+" :> 43 @@ "," :> 44 @@ "-" :> 45 @@ "." :> 46 @@ "/" :> 47 @@
    "0" :> 48 @@ "1" :> 49 @@ "2" :> 50 @@ "3" :> 51 @@ "4" :> 52 @@ "5" :> 53 @@
    "6" :> 54 @@ "7" :> 55 @@ "8" :> 56 @@ "9" :> 57 @@ ":" :> 58 @@ "A" :> 65 @@
    "B" :> 66 @@ "C" :> 67 @@ "D" :> 68 @@ "E" :> 69 @@ "F" :> 70 @@ "I" :> 73 @@
    "P" :> 80 @@ "S" :> 83 @@ "_" :> 95 @@ "a" :> 97 @@ "b" :> 98 @@ "c" :> 99 @@
    "d" :> 100 @@ "e" :> 101 @@ "f" :> 102 @@ "i" :> 105 @@ "l" :> 108 @@
    "m" :> 109 @@ "n" :> 110 @@ "o" :> 111 @@ "p" :> 112 @@ "r" :> 114 @@
    "s" :> 115 @@ "t" :> 116 @@ "u" :> 117 @@ "v" :> 118 @@ "x" :> 120 @@
    "y" :> 121 @@ "z" :> 122

Digits == <<"0", "1", "2", "3", "4", "5", "6", "7", "8", "9">>

IsDigit(c) == \E i \in 1..10 : Digits[i] = c

DigitVal(c) == (CHOOSE i \in 1..10 : Digits[i] = c) - 1

\* str.lower() on one character
LowerChar(c) ==
    IF Ord[c] >= 65 /\ Ord[c] <= 90
    THEN CHOOSE d \in DOMAIN Ord : Ord[d] = Ord[c] + 32
    ELSE c

\* str.lower()
Lower(s) == [i \in 1..Len(s) |-> LowerChar(s[i])]

\* s[a:b] with Python's treatment of negative and out-of-range indices
PyIndex(n, i) ==
    IF i < 0 THEN (IF n + i < 0 THEN 0 ELSE n + i)
    ELSE (IF i > n THEN n ELSE i)

PySlice(s, a, b) ==
    LET lo == PyIndex(Len(s), a)
        hi == PyIndex(Len(s), b)
    IN IF lo >= hi THEN <<>> ELSE SubSeq(s, lo + 1, hi)

\* str.find(c) for a one-character needle: 0-based index or -1
Find(s, c) ==
    IF \E i \in 1..Len(s) : s[i] = c
    THEN (CHOOSE i \in 1..Len(s) : s[i] = c /\ \A j \in 1..(i - 1) : s[j] # c) - 1
    ELSE -1

\* str.split(sep) for a one-character separator
RECURSIVE Split(_, _)
Split(s, sep) ==
    LET k == Find(s, sep)
    IN IF k = -1 THEN <<s>>
       ELSE <<SubSeq(s, 1, k)>> \o Split(SubSeq(s, k + 2, Len(s)), sep)

\* sep.join(parts)
RECURSIVE Join(_, _)
Join(parts, sep) ==
    IF Len(parts) = 0 THEN <<>>
    ELSE IF Len(parts) = 1 THEN parts[1]
    ELSE parts[1] \o <<sep>> \o Join(Tail(parts), sep)

Zeros(n) == [i \in 1..n |-> "0"]

\* str.zfill(width): zeros go after a leading sign
Zfill(s, width) ==
    IF Len(s) >= width THEN s
    ELSE IF Len(s) > 0 /\ s[1] \in {"+", "-"}
         THEN <<s[1]>> \o Zeros(width - Len(s)) \o Tail(s)
         ELSE Zeros(width - Len(s)) \o s

\* sub in s
Contains(sub, s) ==
    \E i \in 0..(Len(s) - Len(sub)) : SubSeq(s, i + 1, i + Len(sub)) = sub

\* s.endswith(suffix)
EndsWith(s, suffix) ==
    /\ Len(s) >= Len(suffix)
    /\ SubSeq(s, Len(s) - Len(suffix) + 1, Len(s)) = suffix

\* s < t, comparison of str by code point
StrLess(s, t) ==
    \E k \in 1..(Len(t)) :
        /\ \A j \in 1..(k - 1) : j <= Len(s) /\ s[j] = t[j]
        /\ \/ k = Len(s) + 1
           \/ k <= Len(s) /\ Ord[s[k]] < Ord[t[k]]

\* list.sort() of a list of str (insertion into an ascending list)
RECURSIVE SortInsert(_, _)
SortInsert(x, sorted) ==
    IF sorted = <<>> THEN <<x>>
    ELSE IF StrLess(x, Head(sorted)) THEN <<x>> \o sorted
    ELSE <<Head(sorted)>> \o SortInsert(x, Tail(sorted))

RECURSIVE Sort(_)
Sort(l) == IF l = <<>> THEN <<>> ELSE SortInsert(Head(l), Sort(Tail(l)))

RECURSIVE DigitsValue(_)
DigitsValue(ds) ==
    IF ds = <<>> THEN 0
    ELSE 10 * DigitsValue(SubSeq(ds, 1, Len(ds) - 1)) + DigitVal(ds[Len(ds)])

RECURSIVE Strip(_)
Strip(s) ==
    IF s # <<>> /\ s[1] = " " THEN Strip(Tail(s))
    ELSE IF s # <<>> /\ s[Len(s)] = " " THEN Strip(SubSeq(s, 1, Len(s) - 1))
    ELSE s

\* int(s): [ok |-> FALSE] stands for ValueError
ParseInt(s) ==
    LET t == Strip(s)
        signed == t # <<>> /\ t[1] \in {"+", "-"}
        body == IF signed THEN Tail(t) ELSE t
        wellFormed ==
            /\ body # <<>>
            /\ \A i \in 1..Len(body) : IsDigit(body[i]) \/ body[i] = "_"
            /\ body[1] # "_" /\ body[Len(body)] # "_"
            /\ \A i \in 1..(Len(body) - 1) : ~(body[i] = "_" /\ body[i + 1] = "_")
        ds == SelectSeq(body, IsDigit)
    IN IF ~wellFormed THEN [ok |-> FALSE, val |-> 0]
       ELSE [ok |-> TRUE,
             val |-> IF signed /\ t[1] = "-" THEN 0 - DigitsValue(ds) ELSE DigitsValue(ds)]

\* str(n) for an int, as the f-string of get_document_by_type formats it
RECURSIVE NatToStr(_)
NatToStr(n) ==
    IF n < 10 THEN <<Digits[n + 1]>>
    ELSE NatToStr(n \div 10) \o <<Digits[(n % 10) + 1]>>

IntToStr(n) == IF n < 0 THEN <<"-">> \o NatToStr(0 - n) ELSE NatToStr(n)

RECURSIVE Flatten(_)
Flatten(ll) == IF ll = <<>> THEN <<>> ELSE Head(ll) \o Flatten(Tail(ll))

(***************************************************************************)
(* State.                                                                  *)
(***************************************************************************)
VARIABLES
    \* tools.py: the directory <root>/processos the tools read
    case_dirs,          \* names of the entries that exist under processos
    walk,               \* os.walk of a case directory: its file lists, in walk order
    \* the tool invocation under check
    tool,               \* name of the tool function called
    parameters,         \* its argument, a str
    result,             \* what it returned (or raised); NoResult before the call
    \* Chatbot.py: module globals (lines 27-31)
    download_complete,
    download_error,     \* None or the str stored by background_download
    download_thread,    \* None (0) or the index in threads of the last Thread started
    rerun_count,
    \* Chatbot.py: st.session_state of every session
    session_state,
    \* what the last script run of every session rendered
    rendered,
    \* the background_download threads started so far
    threads,
    \* the chat turn every session's script is in
    turn,
    \* the "processos" directory download_and_extract_zip_from_drive fills
    processos

toolVars == <<case_dirs, walk, tool, parameters, result>>

uiVars == <<download_complete, download_error, download_thread, rerun_count,
            session_state, rendered, turn, threads, processos>>

vars == <<toolVars, uiVars>>

(***************************************************************************)
(* Values a tool returns.  A Python value is a record: a str, a dict of    *)
(* the two shapes the tools build, or a raised exception.                  *)
(***************************************************************************)
NoResult == [type |-> "none", str |-> <<>>, documents |-> <<>>, count |-> 0, exc |-> ""]

StrValue(s) == [type |-> "str", str |-> s, documents |-> <<>>, count |-> 0, exc |-> ""]

\* {"documents": docs, "total_number_of_documents": n}
ListingValue(docs, n) ==
    [type |-> "listing", str |-> <<>>, documents |-> docs, count |-> n, exc |-> ""]

\* {"documents": docs, "number_of_documents": n}
TypedValue(docs, n) ==
    [type |-> "typed", str |-> <<>>, documents |-> docs, count |-> n, exc |-> ""]

Raised(e) == [type |-> "raise", str |-> <<>>, documents |-> <<>>, count |-> 0, exc |-> e]

ProcessNotFound == <<"P","r","o","c","e","s","s"," ","n","o","t"," ","f","o","u","n","d">>

ProcessFolderNotFound ==
    <<"P","r","o","c","e","s","s"," ","f","o","l","d","e","r"," ","n","o","t"," ","f","o","u","n","d">>

InvalidParameters ==
    <<"I","n","v","a","l","i","d"," ","p","a","r","a","m","e","t","e","r","s">>

CouldNotRetrieveTotal ==
    <<"E","r","r","o","r",":"," ","C","o","u","l","d"," ","n","o","t"," ","r","e","t","r","i","e","v","e",
      " ","t","o","t","a","l"," ","n","u","m","b","e","r">>

DocumentsOfType == <<"D","o","c","u","m","e","n","t","s"," ","o","f"," ","t","y","p","e"," ">>

NotFoundInProcess ==
    <<" ","n","o","t"," ","f","o","u","n","d"," ","i","n"," ","p","r","o","c","e","s","s"," ">>

SEI == <<"S","E","I","_">>

PdfSuffix == <<".","p","d","f">>

(***************************************************************************)
(* tools.py                                                                *)
(***************************************************************************)
\* PaddedId padding to the 3-digit width of the docstring's "XXX/YYYY"
PaddedId_ThreeDigits(id) ==
    IF Len(id) < 9
    THEN IF Find(id, "/") = -1
         THEN Zfill(id, 7)
         ELSE LET parts == Split(id, "/")
              IN Join(<<Zfill(parts[1], 3)>> \o Tail(parts), "/")
    ELSE id

\* lines 28-35: the identifier after padding
PaddedId(id) ==
    IF Len(id) < 9
    THEN IF Find(id, "/") = -1
         THEN Zfill(id, 9)
         ELSE LET parts == Split(id, "/")
              IN Join(<<Zfill(parts[1], 5)>> \o Tail(parts), "/")
    ELSE id

\* lines 36-37 and 45-46: the folder name looked up
FolderName(id) ==
    LET p == PaddedId(id)
    IN IF Find(p, "/") = -1
       THEN SEI \o PySlice(p, 0, -4) \o <<"_">> \o PySlice(p, -4, Len(p))
       ELSE SEI \o Split(p, "/")[1] \o <<"_">> \o Split(p, "/")[2]

\* os.path.exists(os.path.join(processes_path, folder))
PathExists(folder) == folder \in case_dirs

search_process(id) ==
    IF PathExists(FolderName(id)) THEN FolderName(id) ELSE ProcessNotFound

\* lines 96-104: the sorted names ending in ".pdf" below the folder
Documents(process_folder) ==
    LET tree == IF PathExists(process_folder) THEN walk ELSE <<>>
        pdf(file) == EndsWith(file, PdfSuffix)
    IN Sort(SelectSeq(Flatten(tree), pdf))

\* get_document_list_from_process slicing documents[offset:limit]
get_document_list_from_process_SliceToLimit(params) ==
    LET fields == Split(params, ",")
        process_folder == search_process(fields[1])
        limit == ParseInt(fields[2])
        offset == ParseInt(fields[3])
        documents == Documents(process_folder)
    IN IF Len(fields) # 3 THEN StrValue(InvalidParameters)
       ELSE IF process_folder = ProcessNotFound \/ process_folder = ProcessFolderNotFound
            THEN StrValue(process_folder)
       ELSE IF ~limit.ok \/ ~offset.ok THEN StrValue(InvalidParameters)
       ELSE ListingValue(PySlice(documents, offset.val, limit.val), Len(documents))

get_document_list_from_process(params) ==
    LET fields == Split(params, ",")
        process_folder == search_process(fields[1])
        limit == ParseInt(fields[2])
        offset == ParseInt(fields[3])
        documents == Documents(process_folder)
    IN IF Len(fields) # 3 THEN StrValue(InvalidParameters)
       ELSE IF process_folder = ProcessNotFound \/ process_folder = ProcessFolderNotFound
            THEN StrValue(process_folder)
       ELSE IF ~limit.ok \/ ~offset.ok THEN StrValue(InvalidParameters)
       ELSE ListingValue(PySlice(documents, offset.val, offset.val + limit.val),
                         Len(documents))

\* get_document_by_type matching the token case-sensitively
get_document_by_type_CaseSensitive(params) ==
    LET fields == Split(params, ",")
        process_id == fields[1]
        document_type == fields[2]
        process_folder == search_process(process_id)
        probe == get_document_list_from_process(process_id \o <<",", "1", ",", "0">>)
        response == get_document_list_from_process(
                        process_id \o <<",">> \o IntToStr(probe.count) \o <<",", "0">>)
        match(document) == Contains(document_type, document)
        documents_found == SelectSeq(response.documents, match)
    IN IF Len(fields) # 2 THEN Raised("ValueError")
       ELSE IF process_folder = ProcessNotFound \/ process_folder = ProcessFolderNotFound
            THEN StrValue(process_folder)
       ELSE IF probe.type # "listing" THEN StrValue(CouldNotRetrieveTotal)
       ELSE IF response.type # "listing" THEN Raised("TypeError")
       ELSE IF Len(documents_found) > 0
            THEN TypedValue(documents_found, Len(documents_found))
       ELSE StrValue(DocumentsOfType \o document_type \o NotFoundInProcess \o process_id)

get_document_by_type(params) ==
    LET fields == Split(params, ",")
        process_id == fields[1]
        document_type == fields[2]
        process_folder == search_process(process_id)
        probe == get_document_list_from_process(process_id \o <<",", "1", ",", "0">>)
        response == get_document_list_from_process(
                        process_id \o <<",">> \o IntToStr(probe.count) \o <<",", "0">>)
        match(document) == Contains(Lower(document_type), Lower(document))
        documents_found == SelectSeq(response.documents, match)
    IN IF Len(fields) # 2 THEN Raised("ValueError")
       ELSE IF process_folder = ProcessNotFound \/ process_folder = ProcessFolderNotFound
            THEN StrValue(process_folder)
       ELSE IF probe.type # "listing" THEN StrValue(CouldNotRetrieveTotal)
       ELSE IF response.type # "listing" THEN Raised("TypeError")
       ELSE IF Len(documents_found) > 0
            THEN TypedValue(documents_found, Len(documents_found))
       ELSE StrValue(DocumentsOfType \o document_type \o NotFoundInProcess \o process_id)

(***************************************************************************)
(* utils.py and Chatbot.py: the archive fetch and the status loop.         *)
(***************************************************************************)
Sessions == 1..MaxSessions

None == "None"

DownloadFailed == "Download failed"

\* str(e) of an exception that escapes download_and_extract_zip_from_drive
MakedirsError == "OSError"

\* a session before its first script run: st.session_state has no key
EmptySessionState ==
    [has_keys |-> FALSE, messages |-> <<>>, download_complete |-> FALSE,
     download_error |-> None, download_started |-> FALSE]

\* st.error of line 283 and the assistant bubbles of line 268
NothingRendered == [error |-> FALSE, assistant |-> <<>>]

\* os.path.exists("processos") and os.listdir("processos")
Populated(dir) == dir.exists /\ (dir.zip \/ dir.extracted > 0)

\* Chatbot.py lines 41-57; returns the session's state and the global flag
initialize_session_state(state, complete) ==
    LET defaults == IF state.has_keys THEN state
                    ELSE [EmptySessionState EXCEPT !.has_keys = TRUE]
    IN IF Populated(processos)
       THEN [state |-> [defaults EXCEPT !.download_complete = TRUE], download_complete |-> TRUE]
       ELSE [state |-> defaults, download_complete |-> complete]

\* StartsDownload retrying when the session has recorded an error
StartsDownload_RetriesOnError(state) ==
    /\ ~state.download_complete
    /\ ~state.download_started \/ state.download_error # None

\* Chatbot.py line 167: the fragment starts the thread
StartsDownload(state) == ~state.download_complete /\ ~state.download_started

\* update_download_status without lines 176-177: the global is never copied
update_download_status_NeverCompletes(state, complete, error) ==
    LET started == IF StartsDownload(state)
                   THEN [state EXCEPT !.download_started = TRUE] ELSE state
    IN IF error # None THEN [started EXCEPT !.download_error = error] ELSE started

\* Chatbot.py lines 166-187: the session's state after one run of the fragment
update_download_status(state, complete, error) ==
    LET started == IF StartsDownload(state)
                   THEN [state EXCEPT !.download_started = TRUE] ELSE state
        completed == IF complete
                     THEN [started EXCEPT !.download_complete = TRUE] ELSE started
    IN IF error # None THEN [completed EXCEPT !.download_error = error] ELSE completed

\* threading.Thread(target=background_download).start()
NewThread == [pc |-> "makedirs", success |-> None]

\* the globals and threads after update_download_status ran on `state`
StatusEffects(state) ==
    /\ threads' = IF StartsDownload(state) THEN Append(threads, NewThread) ELSE threads
    /\ download_thread' = IF StartsDownload(state) THEN Len(threads) + 1 ELSE download_thread
    /\ rerun_count' = (rerun_count + 1) % 4

(***************************************************************************)
(* Chatbot.py: the chat turn.                                              *)
(***************************************************************************)
SkipPhrases ==
    << <<"S","u","c","c","e","s","s","f","u","l","l","y"," ","t","r","a","n","s","f","e","r","r","e","d">>,
       <<"t","r","a","n","s","f","e","r","r","e","d"," ","t","o">>,
       <<"t","r","a","n","s","f","e","r","r","e","d"," ","b","a","c","k">> >>

\* should_display_message testing only the first phrase of the list
should_display_message_FirstPhraseOnly(content) == ~Contains(SkipPhrases[1], content)

should_display_message(content) ==
    ~ \E i \in 1..Len(SkipPhrases) : Contains(SkipPhrases[i], content)

\* the (role, content) of a snapshot's last message, or None
get_message(message) ==
    IF message.kind \in {"HumanMessage", "AIMessage", "ToolMessage"}
    THEN [none |-> FALSE,
          role |-> IF message.kind = "HumanMessage" THEN "user" ELSE "assistant",
          content |-> message.content]
    ELSE [none |-> TRUE, role |-> "", content |-> <<>>]

\* Chatbot.py line 264: the snapshot's message is shown and kept
Displays(message) ==
    LET got == get_message(message)
    IN ~got.none /\ got.role = "assistant" /\ should_display_message(got.content)

UserMessage(prompt) == [role |-> "user", content |-> prompt]

AssistantMessage(content) == [role |-> "assistant", content |-> content]

\* Chatbot.py line 271: `if assistant_content:`; <<>> stands for None
Truthy(assistant_content) == assistant_content # <<>> /\ assistant_content[1] # <<>>

\* a session's script is not inside a chat turn
\* the loop variable stream_data before the stream has yielded anything
NoSnapshot == [kind |-> "none", content |-> <<>>]

IdleTurn == [pc |-> "idle", prompt |-> <<>>, input |-> <<>>, assistant_content |-> <<>>,
             stream_data |-> NoSnapshot, yielded |-> 0, outcome |-> "none"]

(***************************************************************************)
(* Inputs of the chat turn.                                                *)
(***************************************************************************)
Prompts == {<<"h","i">>}

Contents ==
    {<<>>, <<"o","k">>, <<"n","o">>,
     <<"t","r","a","n","s","f","e","r","r","e","d"," ","b","a","c","k"," ","t","o"," ","s","u","p","e","r","v","i","s","o","r">>}

Kinds == {"HumanMessage", "AIMessage", "ToolMessage", "Other"}

\* the last message of a snapshot the stream yields
Snapshots == [kind : Kinds, content : Contents]

Turns(s) == Cardinality({i \in 1..Len(session_state[s].messages) :
                            session_state[s].messages[i].role = "user"})

\* the one session whose chat is followed in ChatSpec
ChatSession == CHOOSE s \in Sessions : \A r \in Sessions : s <= r

(***************************************************************************)
(* Actions.                                                                *)
(***************************************************************************)
\* the "processos" directory is absent, or was filled by an earlier run
AbsentDir == [exists |-> FALSE, zip |-> FALSE, extracted |-> 0]

FilledDir == [exists |-> TRUE, zip |-> FALSE, extracted |-> 2]

\* the module globals as lines 27-31 set them, and no session yet
UiStart(dir) ==
    /\ download_complete = FALSE
    /\ download_error = None
    /\ download_thread = 0
    /\ rerun_count = 0
    /\ session_state = [s \in Sessions |-> EmptySessionState]
    /\ rendered = [s \in Sessions |-> NothingRendered]
    /\ turn = [s \in Sessions |-> IdleTurn]
    /\ threads = <<>>
    /\ processos = dir

NoToolCall ==
    /\ case_dirs = {}
    /\ walk = <<>>
    /\ tool = "none"
    /\ parameters = <<>>
    /\ result = NoResult

Init ==
    /\ \E dir \in {AbsentDir, FilledDir} : UiStart(dir)
    /\ NoToolCall

\* main() without a prompt: a first load or a full rerun of the script
Rerun(s) ==
    /\ turn[s].pc = "idle"
    /\ LET init == initialize_session_state(session_state[s], download_complete)
           state == update_download_status(init.state, init.download_complete, download_error)
       IN /\ session_state' = [session_state EXCEPT ![s] = state]
          /\ download_complete' = init.download_complete
          /\ StatusEffects(init.state)
    /\ rendered' = [rendered EXCEPT ![s] = NothingRendered]
    /\ turn' = [turn EXCEPT ![s] = IdleTurn]
    /\ UNCHANGED <<download_error, processos, toolVars>>

\* main() with a prompt, lines 216-246: the user's entry is appended and the
\* history is handed to agents.stream
SubmitPrompt(s) ==
    /\ turn[s].pc = "idle"
    /\ Turns(s) < MaxTurns
    /\ \E prompt \in Prompts :
        LET init == initialize_session_state(session_state[s], download_complete)
            state == update_download_status(init.state, init.download_complete, download_error)
            messages == Append(state.messages, UserMessage(prompt))
        IN /\ session_state' = [session_state EXCEPT ![s] = [state EXCEPT !.messages = messages]]
           /\ download_complete' = init.download_complete
           /\ StatusEffects(init.state)
           /\ turn' = [turn EXCEPT ![s] = [IdleTurn EXCEPT !.pc = "stream", !.prompt = prompt,
                                                          !.input = messages]]
    /\ rendered' = [rendered EXCEPT ![s] = NothingRendered]
    /\ UNCHANGED <<download_error, processos, toolVars>>

\* lines 255-268: the stream yields one more snapshot
StreamYield(s) ==
    /\ turn[s].pc = "stream"
    /\ turn[s].yielded < MaxStream
    /\ \E message \in Snapshots :
        /\ turn' = [turn EXCEPT ![s].yielded = @ + 1,
                                ![s].stream_data = message,
                                ![s].assistant_content =
                                    IF Displays(message) THEN <<message.content>> ELSE @]
        /\ rendered' = [rendered EXCEPT ![s].assistant =
                                    IF Displays(message) THEN Append(@, message.content) ELSE @]
    /\ UNCHANGED <<download_complete, download_error, download_thread, rerun_count,
                   session_state, threads, processos, toolVars>>

\* StreamEnd testing `assistant_content is not None` instead of its truth value
StreamEnd_StoresEmpty(s) ==
    /\ turn[s].pc = "stream"
    /\ session_state' = [session_state EXCEPT ![s].messages =
            IF turn[s].assistant_content # <<>>
            THEN Append(@, AssistantMessage(turn[s].assistant_content[1])) ELSE @]
    /\ turn' = [turn EXCEPT ![s].pc = "idle", ![s].outcome = "ended"]
    /\ UNCHANGED <<download_complete, download_error, download_thread, rerun_count,
                   rendered, threads, processos, toolVars>>

\* lines 270-278: the stream is exhausted
StreamEnd(s) ==
    /\ turn[s].pc = "stream"
    /\ session_state' = [session_state EXCEPT ![s].messages =
            IF Truthy(turn[s].assistant_content)
            THEN Append(@, AssistantMessage(turn[s].assistant_content[1])) ELSE @]
    /\ turn' = [turn EXCEPT ![s].pc = "idle", ![s].outcome = "ended"]
    /\ UNCHANGED <<download_complete, download_error, download_thread, rerun_count,
                   rendered, threads, processos, toolVars>>

\* StreamRaise with the append of lines 271-276 moved into a finally clause
StreamRaise_AppendsPartial(s) ==
    /\ turn[s].pc = "stream"
    /\ turn' = [turn EXCEPT ![s].pc = "idle", ![s].outcome = "raised"]
    /\ rendered' = [rendered EXCEPT ![s].error = TRUE]
    /\ session_state' = [session_state EXCEPT ![s].messages =
            IF Truthy(turn[s].assistant_content)
            THEN Append(@, AssistantMessage(turn[s].assistant_content[1])) ELSE @]
    /\ UNCHANGED <<download_complete, download_error, download_thread, rerun_count,
                   threads, processos, toolVars>>

\* lines 280-283: agents.stream, the iteration or get_message raised
StreamRaise(s) ==
    /\ turn[s].pc = "stream"
    /\ turn' = [turn EXCEPT ![s].pc = "idle", ![s].outcome = "raised"]
    /\ rendered' = [rendered EXCEPT ![s].error = TRUE]
    /\ UNCHANGED <<download_complete, download_error, download_thread, rerun_count,
                   session_state, threads, processos, toolVars>>

\* the fragment re-run by the timer (run_every=1) after the script has run
FragmentRerun(s) ==
    /\ turn[s].pc = "idle"
    /\ session_state[s].has_keys
    /\ session_state' = [session_state EXCEPT ![s] =
            update_download_status(session_state[s], download_complete, download_error)]
    /\ StatusEffects(session_state[s])
    /\ UNCHANGED <<download_complete, download_error, rendered, turn, processos, toolVars>>

\* background_download after download_and_extract_zip_from_drive returned False
ReturnFalse(t) ==
    /\ threads' = [threads EXCEPT ![t] = [pc |-> "done", success |-> "False"]]
    /\ download_error' = DownloadFailed
    /\ UNCHANGED download_complete

\* utils.py line 34: os.makedirs(output_dir, exist_ok=True), outside the try
Makedirs(t) ==
    /\ threads[t].pc = "makedirs"
    /\ \/ /\ processos' = [processos EXCEPT !.exists = TRUE]
          /\ threads' = [threads EXCEPT ![t].pc = "download"]
          /\ UNCHANGED <<download_complete, download_error>>
       \/ /\ ~processos.exists
          /\ threads' = [threads EXCEPT ![t] = [pc |-> "done", success |-> "raised"]]
          /\ download_error' = MakedirsError
          /\ UNCHANGED <<download_complete, processos>>
    /\ UNCHANGED <<download_thread, rerun_count, session_state, rendered, turn, toolVars>>

\* utils.py line 43: gdown.download writes the archive or raises
Download(t) ==
    /\ threads[t].pc = "download"
    /\ \/ /\ processos.exists
          /\ processos' = [processos EXCEPT !.zip = TRUE]
          /\ threads' = [threads EXCEPT ![t].pc = "extract"]
          /\ UNCHANGED <<download_complete, download_error>>
       \/ ReturnFalse(t) /\ UNCHANGED processos
    /\ UNCHANGED <<download_thread, rerun_count, session_state, rendered, turn, toolVars>>

\* utils.py lines 48-51: open the archive and extract it
Extract(t) ==
    /\ threads[t].pc = "extract"
    /\ \/ /\ processos.zip
          /\ processos' = [processos EXCEPT !.extracted = 2]
          /\ threads' = [threads EXCEPT ![t].pc = "remove"]
          /\ UNCHANGED <<download_complete, download_error>>
       \/ \* BadZipFile, or the archive is missing: nothing is extracted
          ReturnFalse(t) /\ UNCHANGED processos
       \/ \* extractall fails after some entries were written
          /\ processos.zip
          /\ ReturnFalse(t)
          /\ processos' = [processos EXCEPT !.extracted = IF @ = 0 THEN 1 ELSE @]
    /\ UNCHANGED <<download_thread, rerun_count, session_state, rendered, turn, toolVars>>

\* utils.py lines 56-59: os.remove(zip_path), return True; background_download
\* lines 74-76 then sets the global
Remove(t) ==
    /\ threads[t].pc = "remove"
    /\ \/ /\ processos.zip
          /\ processos' = [processos EXCEPT !.zip = FALSE]
          /\ threads' = [threads EXCEPT ![t] = [pc |-> "done", success |-> "True"]]
          /\ download_complete' = TRUE
          /\ UNCHANGED download_error
       \/ ReturnFalse(t) /\ UNCHANGED processos
    /\ UNCHANGED <<download_thread, rerun_count, session_state, rendered, turn, toolVars>>

\* the status loop of all the sessions that share the process
Next ==
    \/ \E s \in Sessions : Rerun(s)
    \/ \E s \in Sessions : FragmentRerun(s)
    \/ \E t \in 1..Len(threads) : Makedirs(t)
    \/ \E t \in 1..Len(threads) : Download(t)
    \/ \E t \in 1..Len(threads) : Extract(t)
    \/ \E t \in 1..Len(threads) : Remove(t)

Spec == Init /\ [][Next]_vars

\* the status loop when the timer of st.fragment(run_every=1) keeps re-running
\* update_download_status in every session that has loaded the page
LiveSpec == Init /\ [][Next]_vars /\ \A s \in Sessions : WF_vars(FragmentRerun(s))

\* one session that chats while its archive is fetched
ChatNext ==
    \/ Rerun(ChatSession)
    \/ FragmentRerun(ChatSession)
    \/ SubmitPrompt(ChatSession)
    \/ StreamYield(ChatSession)
    \/ StreamEnd(ChatSession)
    \/ StreamRaise(ChatSession)
    \/ \E t \in 1..Len(threads) : Makedirs(t)
    \/ \E t \in 1..Len(threads) : Download(t)
    \/ \E t \in 1..Len(threads) : Extract(t)
    \/ \E t \in 1..Len(threads) : Remove(t)

ChatSpec == Init /\ [][ChatNext]_vars

(***************************************************************************)
(* Inputs of the tools: identifiers, packed parameter strings, and the     *)
(* content of the processos directory.                                     *)
(***************************************************************************)
Year2024 == <<"2","0","2","4">>

\* sequence numbers of 1, 3, 4 and 5 digits
SeqNumbers == {<<"7">>, <<"1","2","3">>, <<"1","2","3","4">>, <<"1","2","3","4","5">>}

\* a sequence number as written, with or without leading zeros
Written(n) == {Zfill(n, w) : w \in Len(n)..5}

Slashed(n, y) == n \o <<"/">> \o y

Compact(n, y) == n \o y

CaseIds ==
    UNION {{Slashed(w, Year2024), Compact(w, Year2024)} : w \in UNION {Written(n) : n \in SeqNumbers}}

OddIds == {<<>>, <<"x">>, <<"1","/","2","/","3">>, <<"-","1","/","2","0","2","4">>}

ListIds == {Slashed(<<"1","2","3">>, Year2024), Compact(<<"1","2","3">>, Year2024)}

ArgStrings ==
    {IntToStr(k) : k \in 0..MaxArg} \cup {<<"-","1">>, <<"x">>, <<>>, <<" ","2">>}

TypeTokens == {<<"a">>, <<"A">>, <<"B">>, <<"p","d","f">>, <<>>, <<"z">>, <<".","P","D">>}

ListParameters ==
    {id \o <<",">> \o l \o <<",">> \o o : id \in ListIds, l \in ArgStrings, o \in ArgStrings}
    \cup {id : id \in ListIds}
    \cup {id \o <<",", "1">> : id \in ListIds}
    \cup {id \o <<",", "1", ",", "0", ",", "0">> : id \in ListIds}

TypeParameters ==
    {id \o <<",">> \o t : id \in ListIds, t \in TypeTokens}
    \cup {id : id \in ListIds}
    \cup {id \o <<",", "a", ",", "b">> : id \in ListIds}

\* folders that may exist under processos: each sequence number unpadded and padded
CaseDirs == {SEI \o Zfill(n, w) \o <<"_">> \o Year2024 : n \in SeqNumbers, w \in {0, 5}}

FileA == <<"a",".","p","d","f">>
FileB == <<"B",".","p","d","f">>
FileAB == <<"a","b",".","p","d","f">>
FileUpper == <<"b",".","P","D","F">>
FileTxt == <<"n",".","t","x","t">>

\* the files of one directory, in the order the file system lists them
DirListings ==
    {<<>>, <<FileTxt>>, <<FileAB, FileA>>, <<FileB, FileUpper>>, <<FileAB, FileB, FileA>>}

Trees == UNION {[1..d -> DirListings] : d \in 1..MaxDepth}

ToolInit ==
    /\ case_dirs \in {{}} \cup {{d} : d \in CaseDirs}
    /\ walk \in Trees
    /\ \/ tool = "search_process" /\ parameters \in CaseIds \cup OddIds
       \/ tool = "get_document_list_from_process" /\ parameters \in ListParameters
       \/ tool = "get_document_by_type" /\ parameters \in TypeParameters
    /\ result = NoResult
    /\ UiStart(AbsentDir)

CallSearchProcess ==
    /\ tool = "search_process" /\ result = NoResult
    /\ result' = StrValue(search_process(parameters))
    /\ UNCHANGED <<case_dirs, walk, tool, parameters, uiVars>>

CallGetDocumentList ==
    /\ tool = "get_document_list_from_process" /\ result = NoResult
    /\ result' = get_document_list_from_process(parameters)
    /\ UNCHANGED <<case_dirs, walk, tool, parameters, uiVars>>

CallGetDocumentByType ==
    /\ tool = "get_document_by_type" /\ result = NoResult
    /\ result' = get_document_by_type(parameters)
    /\ UNCHANGED <<case_dirs, walk, tool, parameters, uiVars>>

ToolNext == CallSearchProcess \/ CallGetDocumentList \/ CallGetDocumentByType

ToolSpec == ToolInit /\ [][ToolNext]_vars

(***************************************************************************)
(* Properties: the fetch status (Spec, ChatSpec).                          *)
(***************************************************************************)
\* some background fetch ended in failure: the fetcher returned False or raised
FetchFailed == \E t \in 1..Len(threads) : threads[t].success \in {"False", "raised"}

\* C1: in every reachable state download_error is never set (non-None) while
\* download_complete is True, neither for the process-wide globals nor for the
\* flags of any session.
C1_ErrorAndCompleteExclusive ==
    /\ ~(download_error # None /\ download_complete)
    /\ \A s \in Sessions :
        ~(session_state[s].download_error # None /\ session_state[s].download_complete)

\* C2: once a background fetch has failed the error is set, no later step makes
\* download_complete True (the global or a session's flag), and a prompt can
\* still be submitted.
C2_FailureNeverCompletes ==
    [][FetchFailed =>
        /\ download_error # None
        /\ ~download_complete => ~download_complete'
        /\ \A s \in Sessions :
            ~session_state[s].download_complete => ~session_state'[s].download_complete
        /\ (turn[ChatSession].pc = "idle" /\ Turns(ChatSession) < MaxTurns)
            => ENABLED SubmitPrompt(ChatSession)]_vars

\* C8: download_and_extract_zip_from_drive never raises: no background fetch
\* ends because an exception escaped the function.
C8_FetcherNeverRaises == \A t \in 1..Len(threads) : threads[t].success # "raised"

(***************************************************************************)
(* Properties: the chat turn (ChatSpec).                                   *)
(***************************************************************************)
\* C7: a turn whose stream raised is reported with st.error and leaves the
\* history as it was handed to the agent: the history before the turn plus the
\* user's message, with no assistant entry appended.
C7_RaisedTurnAppendsNothing ==
    \A s \in Sessions :
        turn[s].outcome = "raised" =>
            /\ rendered[s].error
            /\ session_state[s].messages = turn[s].input
            /\ turn[s].input[Len(turn[s].input)] = UserMessage(turn[s].prompt)

\* a stream raised after displayable snapshots were shown, in a session that
\* already had a history
C7_Witness ==
    /\ turn[ChatSession].outcome = "raised"
    /\ Truthy(turn[ChatSession].assistant_content)
    /\ rendered[ChatSession].assistant # <<>>
    /\ Len(session_state[ChatSession].messages) > 1

(***************************************************************************)
(* Properties: the tools (ToolSpec).                                       *)
(***************************************************************************)
Called(name) == tool = name /\ result # NoResult

Id123Slashed == <<"1","2","3","/","2","0","2","4">>

Id123Compact == <<"1","2","3","2","0","2","4">>

\* the case an identifier denotes: its sequence number and its year
CaseOf(id) ==
    LET k == Find(id, "/")
    IN IF k = -1
       THEN <<DigitsValue(SubSeq(id, 1, Len(id) - 4)), SubSeq(id, Len(id) - 3, Len(id))>>
       ELSE <<DigitsValue(SubSeq(id, 1, k)), SubSeq(id, k + 2, Len(id))>>

\* C3: a slashed and a compact identifier of the same case (sequence number of
\* 1 to 5 digits, with or without leading zeros, and a 4-digit year) are mapped
\* to the same directory name, and search_process returns the same for both.
C3_NormalizationEquivalence ==
    (Called("search_process") /\ parameters \in CaseIds) =>
        \A id \in CaseIds :
            CaseOf(id) = CaseOf(parameters) =>
                /\ FolderName(id) = FolderName(parameters)
                /\ search_process(id) = result.str

Folder123 == <<"S","E","I","_","1","2","3","_","2","0","2","4">>

Folder00123 == <<"S","E","I","_","0","0","1","2","3","_","2","0","2","4">>

FiveDigits(n) == [i \in 1..5 |-> Digits[((n \div (10 ^ (5 - i))) % 10) + 1]]

\* identifiers whose sequence number is written with at most 3 digits
ShortCaseIds ==
    {id \in CaseIds : Len(id) - (IF Find(id, "/") = -1 THEN 4 ELSE 5) <= 3}

C9_ToolsNeverRaise == result.type # "raise"

\* a packed string of three fields
Packed(id, limit, offset) == id \o <<",">> \o limit \o <<",">> \o offset

\* field values that int() rejects
NotIntegers == {<<"x">>, <<>>}

\* packed strings with a wrong number of fields, or a non-integer limit or offset
Malformed ==
    {id : id \in ListIds}
    \cup {id \o <<",", "1">> : id \in ListIds}
    \cup {id \o <<",", "1", ",", "0", ",", "0">> : id \in ListIds}
    \cup {Packed(id, l, o) : id \in ListIds, l \in NotIntegers, o \in ArgStrings}
    \cup {Packed(id, l, o) : id \in ListIds, l \in ArgStrings, o \in NotIntegers}

\* C10: get_document_list_from_process returns "Invalid parameters" for every
\* malformed input, whether or not the case named by the first field exists.
C10_MalformedIsInvalid ==
    (Called("get_document_list_from_process") /\ parameters \in Malformed) =>
        result = StrValue(InvalidParameters)

\* the files below the case folder, and the positions of those ending in ".pdf"
WalkFiles == Flatten(walk)

PdfPositions ==
    {i \in 1..Len(WalkFiles) :
        /\ Len(WalkFiles[i]) >= 4
        /\ \A j \in 1..4 : WalkFiles[i][Len(WalkFiles[i]) - 4 + j] = PdfSuffix[j]}

\* s comes before t in lexicographic order: at the first position where they
\* differ s has the smaller code point, or s is a proper prefix of t
LexBefore(s, t) ==
    LET common == IF Len(s) < Len(t) THEN Len(s) ELSE Len(t)
        differ == {k \in 1..common : s[k] # t[k]}
    IN IF differ = {} THEN Len(s) < Len(t)
       ELSE LET k == CHOOSE k \in differ : \A j \in differ : k <= j
            IN Ord[s[k]] < Ord[t[k]]

\* the k-th name of the ascending sort of the N documents
NthDocument(k) ==
    LET name == CHOOSE x \in {WalkFiles[i] : i \in PdfPositions} :
            /\ Cardinality({i \in PdfPositions : LexBefore(WalkFiles[i], x)}) < k
            /\ k <= Cardinality({i \in PdfPositions : ~LexBefore(x, WalkFiles[i])})
    IN name

\* the page [offset, offset + limit) of the ascending sort
Page(limit, offset) ==
    LET N == Cardinality(PdfPositions)
        size == IF offset >= N THEN 0
                ELSE IF limit < N - offset THEN limit ELSE N - offset
    IN [k \in 1..size |-> NthDocument(offset + k)]

\* C5: for an existing case directory with N documents and non-negative limit
\* and offset, the listing returns total_number_of_documents = N and the slice
\* [offset, offset + limit) of the ascending lexicographic sort of the N names:
\* all N in order for limit = N, offset = 0, an empty page for offset >= N, and
\* never more than max(0, N - offset) items.
C5_ListingIsSortedPage ==
    \A id \in ListIds, limit \in 0..MaxArg, offset \in 0..MaxArg :
        (/\ Called("get_document_list_from_process")
         /\ parameters = Packed(id, NatToStr(limit), NatToStr(offset))
         /\ Folder00123 \in case_dirs) =>
            LET N == Cardinality(PdfPositions)
            IN /\ result = ListingValue(Page(limit, offset), N)
               /\ (limit = N /\ offset = 0) => Len(result.documents) = N
               /\ offset >= N => result.documents = <<>>
               /\ Len(result.documents) <= (IF N > offset THEN N - offset ELSE 0)

\* the scenario of the specification: three documents one level deep, listed
\* with limit 2 and offset 1
C5_Witness ==
    /\ Called("get_document_list_from_process")
    /\ parameters = Packed(Id123Slashed, <<"2">>, <<"1">>)
    /\ Folder00123 \in case_dirs
    /\ Len(walk) = 2 /\ walk[1] = <<>>
    /\ Cardinality(PdfPositions) = 3
    /\ Len(result.documents) = 2
    /\ result.count = 3

\* two characters are the same letter up to case, or the same character
SameIgnoringCase(c, d) ==
    \/ c = d
    \/ Ord[c] >= 65 /\ Ord[c] <= 90 /\ Ord[d] = Ord[c] + 32
    \/ Ord[d] >= 65 /\ Ord[d] <= 90 /\ Ord[c] = Ord[d] + 32

\* the name contains the token case-insensitively
HasToken(name, token) ==
    \E at \in 0..(Len(name) - Len(token)) :
        \A j \in 1..Len(token) : SameIgnoringCase(name[at + j], token[j])

\* C6: for an existing case, get_document_by_type returns exactly the documents
\* of the full listing whose name contains the token case-insensitively, with
\* their count; when none matches it returns the "Documents of type ... not
\* found in process ..." message, never a result with an empty documents list.
C6_TypeFilter ==
    \A id \in ListIds, token \in TypeTokens :
        (/\ Called("get_document_by_type")
         /\ parameters = id \o <<",">> \o token
         /\ Folder00123 \in case_dirs) =>
            LET N == Cardinality(PdfPositions)
                full == Page(N, 0)
                hit(name) == HasToken(name, token)
                matching == SelectSeq(full, hit)
            IN /\ matching # <<>> => result = TypedValue(matching, Len(matching))
               /\ matching = <<>> =>
                    result = StrValue(DocumentsOfType \o token \o NotFoundInProcess \o id)
               /\ ~(result.type = "typed" /\ result.documents = <<>>)

\* an upper-case token selected some but not all of the documents
C6_Witness ==
    /\ Called("get_document_by_type")
    /\ parameters = Id123Slashed \o <<",", "B">>
    /\ Folder00123 \in case_dirs
    /\ result.type = "typed"
    /\ Len(result.documents) = 2
    /\ Cardinality(PdfPositions) = 3

\* no document matched the token
C6_WitnessNone ==
    /\ Called("get_document_by_type")
    /\ Folder00123 \in case_dirs
    /\ Cardinality(PdfPositions) > 0
    /\ result.type = "str"

(***************************************************************************)
(* Properties: the fetch workers (Spec).                                   *)
(***************************************************************************)
FetchSucceeded == \E t \in 1..Len(threads) : threads[t].success = "True"

\* C11: download_complete (the global or a session's flag) is True only if
\* some call of download_and_extract_zip_from_drive has returned True, or the
\* archive directory was already populated before any fetch was started.
C11_CompleteOnlyAfterSuccess ==
    (download_complete \/ \E s \in Sessions : session_state[s].download_complete) =>
        \/ FetchSucceeded
        \/ threads = <<>> /\ Populated(processos)

\* C12: update_download_status starts the background_download thread at most
\* once in the process, whatever the interleaving of the sessions.
C12_AtMostOneWorker == Len(threads) <= 1

Started == {s \in Sessions : session_state[s].download_started}

\* C13: within one session the fetcher is spawned at most once: every thread
\* start sets the download_started flag of exactly one session that had it
\* False, the flag is never reset (so no retry follows a failure), and a
\* session that is complete without having started never starts a fetch.
C13_OneFetchPerSession ==
    [][/\ \A s \in Sessions :
            /\ session_state[s].download_started => session_state'[s].download_started
            /\ (session_state[s].download_complete /\ ~session_state[s].download_started)
                    => ~session_state'[s].download_started
       /\ Len(threads') = Len(threads) + Cardinality(Started' \ Started)
       /\ Cardinality(Started') = Len(threads')]_vars

\* a session polled after its fetch failed, and another session found the
\* directory populated and never started a fetch
C13_Witness ==
    \E s, r \in Sessions :
        /\ session_state[s].download_started
        /\ session_state[s].download_error # None
        /\ FetchFailed
        /\ Len(threads) = 1
        /\ session_state[r].has_keys
        /\ session_state[r].download_complete
        /\ ~session_state[r].download_started

\* C14: if a session has started the fetch and the fetcher has returned
\* success then, update_download_status being re-invoked, the session's
\* download_complete flag eventually becomes True, and once True it stays True.
C14_EventuallyComplete ==
    /\ \A s \in Sessions :
        (session_state[s].download_started /\ FetchSucceeded)
            ~> session_state[s].download_complete
    /\ [][\A s \in Sessions :
            session_state[s].download_complete => session_state'[s].download_complete]_vars

\* a session that started the fetch shows complete after the fetcher succeeded
C14_Witness ==
    \E s \in Sessions :
        /\ session_state[s].download_started
        /\ FetchSucceeded
        /\ session_state[s].download_complete

(***************************************************************************)
(* Properties: what the chat shows and stores (ChatSpec).                  *)
(***************************************************************************)
HandoffPhrases ==
    { <<"S","u","c","c","e","s","s","f","u","l","l","y"," ","t","r","a","n","s","f","e","r","r","e","d">>,
      <<"t","r","a","n","s","f","e","r","r","e","d"," ","t","o">>,
      <<"t","r","a","n","s","f","e","r","r","e","d"," ","b","a","c","k">> }

\* the text contains one of the hand-off phrases
HasHandoffPhrase(content) ==
    \E phrase \in HandoffPhrases :
        \E at \in 0..(Len(content) - Len(phrase)) :
            \A j \in 1..Len(phrase) : content[at + j] = phrase[j]

\* the stream of session s yielded a snapshot in this step
Yielded(s) == turn[s].pc = "stream" /\ turn'[s].yielded = turn[s].yielded + 1

\* the stream of session s was exhausted in this step
Ended(s) == turn[s].pc = "stream" /\ turn'[s].pc = "idle" /\ turn'[s].outcome = "ended"

\* a step of the chat when Qualifies tells which snapshots are shown and kept:
\* a qualifying snapshot is shown and becomes the candidate entry, any other
\* snapshot changes nothing; the entry appended at the end, if any, is the
\* candidate; nothing shown or stored as assistant has a hand-off phrase
HandoffStep(Qualifies(_)) ==
    \A s \in Sessions :
        LET m == turn'[s].stream_data
            old == session_state[s].messages
            new == session_state'[s].messages
        IN /\ Yielded(s) =>
                IF Qualifies(m)
                THEN /\ rendered'[s].assistant = Append(rendered[s].assistant, m.content)
                     /\ turn'[s].assistant_content = <<m.content>>
                ELSE /\ rendered'[s].assistant = rendered[s].assistant
                     /\ turn'[s].assistant_content = turn[s].assistant_content
           /\ Ended(s) =>
                \/ new = old /\ ~Truthy(turn[s].assistant_content)
                \/ /\ turn[s].assistant_content # <<>>
                   /\ new = Append(old, AssistantMessage(turn[s].assistant_content[1]))
           /\ \A i \in 1..Len(rendered'[s].assistant) :
                ~HasHandoffPhrase(rendered'[s].assistant[i])
           /\ \A i \in 1..Len(new) :
                new[i].role = "assistant" => ~HasHandoffPhrase(new[i].content)

NonHumanAndClean(m) == m.kind # "HumanMessage" /\ ~HasHandoffPhrase(m.content)

AiOrToolAndClean(m) == m.kind \in {"AIMessage", "ToolMessage"} /\ ~HasHandoffPhrase(m.content)

C16_HistoryAppendOnly ==
    [][\A s \in Sessions :
        LET old == session_state[s].messages
            new == session_state'[s].messages
        IN /\ Len(new) >= Len(old) /\ SubSeq(new, 1, Len(old)) = old
           /\ (turn[s].pc = "idle" /\ turn'[s].pc = "stream") =>
                /\ new = Append(old, UserMessage(turn'[s].prompt))
                /\ turn'[s].input = new
                /\ turn'[s].yielded = 0
           /\ (turn[s].pc = "stream" /\ turn'[s].pc = "stream") => new = old
           /\ (turn[s].pc = "stream" /\ turn'[s].pc = "idle") =>
                \/ new = old
                \/ Len(new) = Len(old) + 1 /\ new[Len(new)].role = "assistant"
           /\ (turn[s].pc = "idle" /\ turn'[s].pc = "idle") => new = old
           /\ \A i \in 1..Len(new) :
                new[i].role = "assistant" =>
                    /\ new[i].content # <<>>
                    /\ i > 1 /\ new[i - 1].role = "user"]_vars

\* a second turn ended after showing an empty assistant content: the history
\* holds the first turn's two entries and the second prompt only
C16_Witness ==
    /\ turn[ChatSession].outcome = "ended"
    /\ turn[ChatSession].assistant_content = << <<>> >>
    /\ Len(session_state[ChatSession].messages) = 3
    /\ session_state[ChatSession].messages[2].role = "assistant"
    /\ session_state[ChatSession].messages[3].role = "user"

=============================================================================
